---- MODULE Spec2Model ----
(***************************************************************************)
(* Model of the product routes (routes/products.js): the validateProduct   *)
(* middleware, the five route handlers and their await points, on top of   *)
(* the productModel data-access collaborator.                              *)
(***************************************************************************)
EXTENDS Integers, Sequences, FiniteSets, TLC

VARIABLES vbody, vout, store, nextId, req, gone

vars == <<vbody, vout, store, nextId, req, gone>>

----------------------------------------------------------------------------
(* JavaScript values a JSON body can carry for a field.  A string is a     *)
(* sequence of one-character strings so that trim() and the conversion to  *)
(* a number are computed, not assumed.                                     *)

JSVal(t, s, n, b) == [t |-> t, s |-> s, n |-> n, b |-> b]
Undef   == JSVal("undefined", <<>>, 0, FALSE)
Null    == JSVal("null", <<>>, 0, FALSE)
Str(s)  == JSVal("string", s, 0, FALSE)
Num(n)  == JSVal("number", <<>>, n, FALSE)
Bool(b) == JSVal("boolean", <<>>, 0, b)

Strings ==
    { <<>>, <<" ">>, <<" ", " ">>, <<"a">>, <<"a", "b">>, <<" ", "a", " ">>,
      <<"1", "2">>, <<"-", "3">>, <<"0">>, <<" ", "7", " ">>, <<"1", "a">> }

Numbers == { -5, 0, 1, 25 }

Values ==
    {Undef, Null, Bool(TRUE), Bool(FALSE)}
        \cup { Str(s) : s \in Strings } \cup { Num(n) : n \in Numbers }

Body(name, price, category) ==
    [name |-> name, price |-> price, category |-> category]

Bodies == { Body(n, p, c) : n \in Values, p \in Values, c \in Values }

\* ToBoolean, as applied by `!x`
Truthy(v) ==
    CASE v.t = "string"  -> Len(v.s) > 0
      [] v.t = "number"  -> v.n # 0
      [] v.t = "boolean" -> v.b
      [] OTHER           -> FALSE

IsSpace(c) == c = " "

RECURSIVE TrimStart(_)
TrimStart(s) ==
    IF s = <<>> THEN <<>>
    ELSE IF IsSpace(Head(s)) THEN TrimStart(Tail(s)) ELSE s

RECURSIVE TrimEnd(_)
TrimEnd(s) ==
    IF s = <<>> THEN <<>>
    ELSE IF IsSpace(s[Len(s)]) THEN TrimEnd(SubSeq(s, 1, Len(s) - 1)) ELSE s

\* String.prototype.trim
Trim(s) == TrimEnd(TrimStart(s))

\* only strings have a trim method; name.trim() on any other truthy value
\* is a call of undefined and throws a TypeError
HasTrim(v) == v.t = "string"

Digits == {"0", "1", "2", "3", "4", "5", "6", "7", "8", "9"}

DigitVal(c) ==
    CASE c = "0" -> 0 [] c = "1" -> 1 [] c = "2" -> 2 [] c = "3" -> 3
      [] c = "4" -> 4 [] c = "5" -> 5 [] c = "6" -> 6 [] c = "7" -> 7
      [] c = "8" -> 8 [] c = "9" -> 9

RECURSIVE DigitsToNat(_, _)
DigitsToNat(s, acc) ==
    IF s = <<>> THEN acc ELSE DigitsToNat(Tail(s), 10 * acc + DigitVal(Head(s)))

AllDigits(s) == s # <<>> /\ \A i \in 1..Len(s) : s[i] \in Digits

NumRes(nan, n) == [nan |-> nan, n |-> n]

\* StringToNumber: white space is stripped, the empty string is 0
StringToNumber(s) ==
    LET t == Trim(s) IN
    IF t = <<>> THEN NumRes(FALSE, 0)
    ELSE IF AllDigits(t) THEN NumRes(FALSE, DigitsToNat(t, 0))
    ELSE IF Head(t) = "-" /\ AllDigits(Tail(t))
         THEN NumRes(FALSE, 0 - DigitsToNat(Tail(t), 0))
    ELSE NumRes(TRUE, 0)

\* ToNumber, as applied by isNaN(x) and by x <= 0
ToNumber(v) ==
    CASE v.t = "undefined" -> NumRes(TRUE, 0)
      [] v.t = "null"      -> NumRes(FALSE, 0)
      [] v.t = "boolean"   -> NumRes(FALSE, IF v.b THEN 1 ELSE 0)
      [] v.t = "number"    -> NumRes(FALSE, v.n)
      [] v.t = "string"    -> StringToNumber(v.s)

IsNaN(v) == ToNumber(v).nan

\* v <= 0: both sides go through ToNumber; a NaN makes the comparison false
LessEqZero(v) == ~ToNumber(v).nan /\ ToNumber(v).n <= 0

MsgName     == "Product name is required"
MsgPrice    == "Product price must be a positive number"
MsgCategory == "Product category is required"

\* `!x || x.trim() === ''` : "error", "ok", or "throw" (the TypeError)
TextCheck(v) ==
    IF ~Truthy(v) THEN "error"
    ELSE IF ~HasTrim(v) THEN "throw"
    ELSE IF Trim(v.s) = <<>> THEN "error" ELSE "ok"

\* `!price || isNaN(price) || price <= 0`
PriceCheck(v) ==
    IF ~Truthy(v) \/ IsNaN(v) \/ LessEqZero(v) THEN "error" ELSE "ok"

Push(c, msg) == IF c = "error" THEN <<msg>> ELSE <<>>

VRes(out, errors) == [out |-> out, errors |-> errors]

\* the three checks run in order; a throw leaves the middleware at once
ValidateErrors(body) ==
    LET n == TextCheck(body.name)
        p == PriceCheck(body.price)
        c == TextCheck(body.category)
    IN  IF n = "throw" \/ c = "throw" THEN VRes("throw", <<>>)
        ELSE VRes("checked", Push(n, MsgName) \o Push(p, MsgPrice)
                                 \o Push(c, MsgCategory))

VOut(out, errors, next) == [out |-> out, errors |-> errors, next |-> next]

validateProductNoReturn(body) ==
    LET v == ValidateErrors(body) IN
    IF v.out = "throw" THEN VOut("throw", <<>>, FALSE)
    ELSE IF Len(v.errors) > 0 THEN VOut("400", v.errors, TRUE)
    ELSE VOut("next", <<>>, TRUE)

\* out: "400" (res.status(400).json({errors})), "next" (next() is called)
\* or "throw" (a TypeError leaves the middleware); next: whether the route
\* handler runs
validateProduct(body) ==
    LET v == ValidateErrors(body) IN
    IF v.out = "throw" THEN VOut("throw", <<>>, FALSE)
    ELSE IF Len(v.errors) > 0 THEN VOut("400", v.errors, FALSE)
    ELSE VOut("next", <<>>, TRUE)

----------------------------------------------------------------------------
(* Bounds                                                                  *)

MaxReq == 2     \* requests in one run
MaxId  == 2     \* largest identifier the store hands out

Reqs == 1..MaxReq

\* the ids requests ask for: one the store holds at first, one it does not
Ids == {1, 2}

\* what a data-layer failure can carry (err.message)
Errors == {"ECONNREFUSED", "duplicate key"}

----------------------------------------------------------------------------
(* Request bodies used by the requests of a run                            *)

ValidBody    == Body(Str(<<"a", "b">>), Num(25), Str(<<"a">>))
NoNameBody   == Body(Undef, Num(25), Str(<<"a">>))
NumNameBody  == Body(Num(1), Num(25), Str(<<"a">>))
NoBody       == Body(Undef, Undef, Undef)

ReqBodies == {ValidBody, NoNameBody, NumNameBody}

----------------------------------------------------------------------------
(* Values the data-access collaborator returns                             *)

RVal(tag, b, id, body, items) ==
    [tag |-> tag, b |-> b, id |-> id, body |-> body, items |-> items]
VNull            == RVal("null", FALSE, 0, NoBody, {})
VBool(b)         == RVal("boolean", b, 0, NoBody, {})
VProduct(id, bd) == RVal("product", FALSE, id, bd, {})
VList(items)     == RVal("list", FALSE, 0, NoBody, items)

\* `!product`, `!updatedProduct`, `!success`
Falsy(v) == v.tag = "null" \/ (v.tag = "boolean" /\ ~v.b)

\* the settled promise of a collaborator call
Ret(st, val, err) == [st |-> st, val |-> val, err |-> err]
NoRet         == Ret("none", VNull, "")
Resolved(val) == Ret("ok", val, "")
Rejected(err) == Ret("throw", VNull, err)

\* a call made on the collaborator
Call(op, id, body) == [op |-> op, id |-> id, body |-> body]

(* The collaborator (models/productModel): each operation is atomic and    *)
(* gives the new store, the new id counter and the value returned.         *)

StoreOut(st, nid, val) == [store |-> st, nextId |-> nid, val |-> val]

\* a stored record
Product(id, bd) == [id |-> id, body |-> bd]

Has(st, id) == \E p \in st : p.id = id
Get(st, id) == CHOOSE p \in st : p.id = id

getAllProducts(st, nid) == StoreOut(st, nid, VList(st))

getProductById(st, nid, id) ==
    StoreOut(st, nid,
             IF Has(st, id) THEN VProduct(id, Get(st, id).body) ELSE VNull)

createProduct(st, nid, data) ==
    StoreOut(st \cup {Product(nid, data)}, nid + 1, VProduct(nid, data))

updateProduct(st, nid, id, data) ==
    IF Has(st, id)
    THEN StoreOut((st \ {Get(st, id)}) \cup {Product(id, data)}, nid,
                  VProduct(id, data))
    ELSE StoreOut(st, nid, VNull)

deleteProduct(st, nid, id) ==
    IF Has(st, id)
    THEN StoreOut(st \ {Get(st, id)}, nid, VBool(TRUE))
    ELSE StoreOut(st, nid, VBool(FALSE))

Perform(c, st, nid) ==
    CASE c.op = "getAllProducts" -> getAllProducts(st, nid)
      [] c.op = "getProductById" -> getProductById(st, nid, c.id)
      [] c.op = "createProduct"  -> createProduct(st, nid, c.body)
      [] c.op = "updateProduct"  -> updateProduct(st, nid, c.id, c.body)
      [] c.op = "deleteProduct"  -> deleteProduct(st, nid, c.id)

----------------------------------------------------------------------------
(* Responses                                                               *)

Resp(status, kind, errors, error, data) ==
    [status |-> status, kind |-> kind, errors |-> errors, error |-> error,
     data |-> data]

\* res.status(s).json(data)
Json(status, data)      == Resp(status, "json", <<>>, "", data)
\* res.status(s).json({ error })
JsonError(status, msg)  == Resp(status, "error", <<>>, msg, VNull)
\* res.status(400).json({ errors })
JsonErrors(errors)      == Resp(400, "errors", errors, "", VNull)
\* res.status(204).end()
NoContent               == Resp(204, "empty", <<>>, "", VNull)
\* the framework's answer to an exception that leaves a middleware
UncaughtError           == Resp(500, "html", <<>>, "", VNull)

NotFound == JsonError(404, "Product not found")

CaughtLeaks(msg, err) == JsonError(500, err)

\* catch (err) { res.status(500).json({ error: msg }) }
Caught(msg, err) == JsonError(500, msg)

----------------------------------------------------------------------------
(* The route handlers after their await: what each sends for the settled   *)
(* collaborator call, in order.                                            *)

\* router.get('/')
GetAllSends(ret) ==
    IF ret.st = "throw" THEN <<Caught("Failed to retrieve products", ret.err)>>
    ELSE <<Json(200, ret.val)>>

GetByIdSendsNoReturn(ret) ==
    IF ret.st = "throw" THEN <<Caught("Failed to retrieve product", ret.err)>>
    ELSE IF Falsy(ret.val) THEN <<NotFound, Json(200, ret.val)>>
    ELSE <<Json(200, ret.val)>>

\* router.get('/:id')
GetByIdSends(ret) ==
    IF ret.st = "throw" THEN <<Caught("Failed to retrieve product", ret.err)>>
    ELSE IF Falsy(ret.val) THEN <<NotFound>>
    ELSE <<Json(200, ret.val)>>

PostSendsOk(ret) ==
    IF ret.st = "throw" THEN <<Caught("Failed to create product", ret.err)>>
    ELSE <<Json(200, ret.val)>>

\* router.post('/')
PostSends(ret) ==
    IF ret.st = "throw" THEN <<Caught("Failed to create product", ret.err)>>
    ELSE <<Json(201, ret.val)>>

PutSendsNoCheck(ret) ==
    IF ret.st = "throw" THEN <<Caught("Failed to update product", ret.err)>>
    ELSE <<Json(200, ret.val)>>

\* router.put('/:id')
PutSends(ret) ==
    IF ret.st = "throw" THEN <<Caught("Failed to update product", ret.err)>>
    ELSE IF Falsy(ret.val) THEN <<NotFound>>
    ELSE <<Json(200, ret.val)>>

DeleteSendsNoCheck(ret) ==
    IF ret.st = "throw" THEN <<Caught("Failed to delete product", ret.err)>>
    ELSE <<NoContent>>

DeleteSendsInverted(ret) ==
    IF ret.st = "throw" THEN <<Caught("Failed to delete product", ret.err)>>
    ELSE IF Falsy(ret.val) THEN <<NoContent>>
    ELSE <<NotFound>>

\* router.delete('/:id')
DeleteSends(ret) ==
    IF ret.st = "throw" THEN <<Caught("Failed to delete product", ret.err)>>
    ELSE IF Falsy(ret.val) THEN <<NotFound>>
    ELSE <<NoContent>>

HandlerSends(method, ret) ==
    CASE method = "LIST"   -> GetAllSends(ret)
      [] method = "GET"    -> GetByIdSends(ret)
      [] method = "POST"   -> PostSends(ret)
      [] method = "PUT"    -> PutSends(ret)
      [] method = "DELETE" -> DeleteSends(ret)

----------------------------------------------------------------------------
(* State                                                                   *)
(*   req[r]   one request: where it is, what it asked, the collaborator    *)
(*            calls its handler made, the settled call, the responses sent *)
(*            and whether it arrived after a DELETE of its id answered 204 *)
(*   store    the collaborator's records; nextId its id counter            *)
(*   gone     the ids for which a DELETE has answered 204                  *)
(*   vbody, vout   a body and what validateProduct did with it             *)

Request(phase, method, id, body, calls, ret, sent, late) ==
    [phase |-> phase, method |-> method, id |-> id, body |-> body,
     calls |-> calls, ret |-> ret, sent |-> sent, late |-> late]

Idle == Request("idle", "", 0, NoBody, <<>>, NoRet, <<>>, FALSE)

NotRun == VOut("none", <<>>, FALSE)

EmptyStore == {}
SeededStore == {Product(1, ValidBody)}

Init ==
    /\ vbody = NoBody
    /\ vout = NotRun
    /\ store = SeededStore
    /\ nextId = Cardinality(store) + 1
    /\ req = [r \in Reqs |-> Idle]
    /\ gone = {}

CanArrive(r) ==
    /\ req[r].phase = "idle"
    /\ \A q \in 1..(r - 1) : req[q].phase # "idle"

\* a route without middleware: the handler runs to its await
Begin(r, method, id, call) ==
    /\ CanArrive(r)
    /\ req' = [req EXCEPT ![r] =
                 Request("pending", method, id, NoBody, <<call>>, NoRet, <<>>,
                         id \in gone)]
    /\ UNCHANGED <<vbody, vout, store, nextId, gone>>

\* a route behind validateProduct: the handler runs only after next()
BeginValidated(r, method, id, body, call) ==
    LET v == validateProduct(body)
        first == IF v.out = "400" THEN <<JsonErrors(v.errors)>>
                 ELSE IF v.out = "throw" THEN <<UncaughtError>>
                 ELSE <<>>
    IN  /\ CanArrive(r)
        /\ req' = [req EXCEPT ![r] =
                     Request(IF v.next THEN "pending" ELSE "done", method, id,
                             body, IF v.next THEN <<call>> ELSE <<>>, NoRet,
                             first, id \in gone)]
        /\ UNCHANGED <<vbody, vout, store, nextId, gone>>

GetAll(r) == Begin(r, "LIST", 0, Call("getAllProducts", 0, NoBody))

GetById(r) ==
    \E id \in Ids : Begin(r, "GET", id, Call("getProductById", id, NoBody))

Post(r) ==
    \E body \in ReqBodies :
        BeginValidated(r, "POST", 0, body, Call("createProduct", 0, body))

Put(r) ==
    \E id \in Ids, body \in ReqBodies :
        BeginValidated(r, "PUT", id, body, Call("updateProduct", id, body))

Delete(r) ==
    \E id \in Ids : Begin(r, "DELETE", id, Call("deleteProduct", id, NoBody))

\* the collaborator carries out the awaited call and resolves it
StoreReturns(r) ==
    /\ req[r].phase = "pending"
    /\ LET c == req[r].calls[Len(req[r].calls)]
           out == Perform(c, store, nextId)
       IN  /\ c.op = "createProduct" => nextId <= MaxId
           /\ store' = out.store
           /\ nextId' = out.nextId
           /\ req' = [req EXCEPT ![r].phase = "settled",
                                 ![r].ret = Resolved(out.val)]
    /\ UNCHANGED <<vbody, vout, gone>>

\* the awaited call rejects
StoreThrows(r) ==
    /\ req[r].phase = "pending"
    /\ \E e \in Errors :
          req' = [req EXCEPT ![r].phase = "settled", ![r].ret = Rejected(e)]
    /\ UNCHANGED <<vbody, vout, store, nextId, gone>>

\* the handler continues after its await and answers
Resume(r) ==
    /\ req[r].phase = "settled"
    /\ LET sends == HandlerSends(req[r].method, req[r].ret)
           all == req[r].sent \o sends
       IN  /\ req' = [req EXCEPT ![r].phase = "done", ![r].sent = all]
           /\ gone' = IF req[r].method = "DELETE" /\ all[1].status = 204
                      THEN gone \cup {req[r].id} ELSE gone
    /\ UNCHANGED <<vbody, vout, store, nextId>>

Next ==
    \E r \in Reqs :
        \/ GetAll(r)
        \/ GetById(r)
        \/ Post(r)
        \/ Put(r)
        \/ Delete(r)
        \/ StoreReturns(r)
        \/ StoreThrows(r)
        \/ Resume(r)

Spec == Init /\ [][Next]_vars

\* the event loop runs every continuation whose promise has settled
FairSpec == Spec /\ \A r \in Reqs : WF_vars(Resume(r))

(* validateProduct alone, over every body                                  *)

InitValidate ==
    /\ vbody \in Bodies
    /\ vout = NotRun
    /\ store = EmptyStore
    /\ nextId = 1
    /\ req = [r \in Reqs |-> Idle]
    /\ gone = {}

Validate ==
    /\ vout = NotRun
    /\ vout' = validateProduct(vbody)
    /\ UNCHANGED <<vbody, store, nextId, req, gone>>

NextValidate == Validate

SpecValidate == InitValidate /\ [][NextValidate]_vars

----------------------------------------------------------------------------
(* Properties                                                              *)

Done(r)      == req[r].phase = "done"
Status(r)    == req[r].sent[1].status
ByIdMethods  == {"GET", "PUT", "DELETE"}

\* C1: a POST whose body passes validation and whose createProduct call
\* resolves has called createProduct exactly once, with the request body,
\* and answers 201 with exactly the record createProduct returned.
C1_CreateReturns201 ==
    \A r \in Reqs :
        ( /\ Done(r)
          /\ req[r].method = "POST"
          /\ ValidateErrors(req[r].body) = VRes("checked", <<>>)
          /\ req[r].ret.st # "throw" )
        => /\ req[r].calls = <<Call("createProduct", 0, req[r].body)>>
           /\ req[r].ret.st = "ok"
           /\ req[r].ret.val.tag = "product"
           /\ req[r].ret.val.body = req[r].body
           /\ req[r].sent = <<Json(201, req[r].ret.val)>>

C1_Witness ==
    \E r \in Reqs :
        /\ Done(r) /\ req[r].method = "POST" /\ req[r].ret.st = "ok"
        /\ Status(r) = 201
        /\ Has(store, req[r].ret.val.id)

\* C4: for GET, PUT (valid body) and DELETE by id, a resolved collaborator
\* call that reports the id absent gives 404 {error: 'Product not found'};
\* one that reports it present gives 200 with the product (GET, PUT) or 204
\* without a body (DELETE).
C4_NotFoundIffAbsent ==
    \A r \in Reqs :
        (Done(r) /\ req[r].method \in ByIdMethods /\ req[r].ret.st = "ok")
        => IF Falsy(req[r].ret.val)
           THEN req[r].sent = <<JsonError(404, "Product not found")>>
           ELSE IF req[r].method = "DELETE"
                THEN req[r].sent = <<Resp(204, "empty", <<>>, "", VNull)>>
                ELSE req[r].sent = <<Json(200, req[r].ret.val)>>

C4_Witness ==
    \E r, q \in Reqs :
        /\ Done(r) /\ req[r].method = "PUT" /\ req[r].ret.st = "ok"
        /\ Status(r) = 404
        /\ Done(q) /\ req[q].method = "PUT" /\ req[q].ret.st = "ok"
        /\ Status(q) = 200

\* C5 as stated: once a DELETE of an id has answered 204, every later GET,
\* PUT or DELETE of that id (the store not failing) answers 404.
C5_LaterAlways404 ==
    \A r \in Reqs :
        ( /\ Done(r) /\ req[r].late
          /\ req[r].method \in ByIdMethods
          /\ req[r].ret.st # "throw" )
        => Status(r) = 404

\* C5 (amended): once a DELETE of an id has answered 204, every later GET,
\* DELETE, or PUT whose body passes validation, of that id answers 404 when
\* its collaborator call resolves.
C5_LaterValid404 ==
    \A r \in Reqs :
        ( /\ Done(r) /\ req[r].late
          /\ req[r].method \in ByIdMethods
          /\ req[r].ret.st = "ok" )
        => req[r].sent = <<NotFound>>

C5_Witness ==
    \E r, q \in Reqs :
        /\ Done(r) /\ req[r].method = "DELETE" /\ Status(r) = 204
        /\ Done(q) /\ req[q].method = "DELETE" /\ req[q].id = req[r].id
        /\ req[q].late /\ Status(q) = 404

FixedMessage(method) ==
    CASE method = "LIST"   -> "Failed to retrieve products"
      [] method = "GET"    -> "Failed to retrieve product"
      [] method = "POST"   -> "Failed to create product"
      [] method = "PUT"    -> "Failed to update product"
      [] method = "DELETE" -> "Failed to delete product"

\* C6: whenever the data-access call of a request rejects, the response is
\* 500 {error: m} with m the fixed message of the operation, whatever the
\* error carried.
C6_Generic500 ==
    \A r \in Reqs :
        (Done(r) /\ req[r].ret.st = "throw")
        => req[r].sent =
              <<Resp(500, "error", <<>>, FixedMessage(req[r].method), VNull)>>

C6_Witness ==
    \E r, q \in Reqs :
        /\ Done(r) /\ Done(q)
        /\ req[r].method = req[q].method
        /\ req[r].ret.st = "throw" /\ req[q].ret.st = "throw"
        /\ req[r].ret.err # req[q].ret.err
        /\ req[r].sent = req[q].sent

\* C7: every answered request ends as a success (200, 201, 204), a
\* validation error (400 with itemized messages), a not-found (404) or an
\* unexpected failure (500 with the generic JSON message), and no body makes
\* validateProduct throw.
C7_FourOutcomesOnly ==
    \A r \in Reqs :
        Done(r)
        => /\ ValidateErrors(req[r].body).out # "throw"
           /\ \/ Status(r) \in {200, 201, 204}
              \/ Status(r) = 400 /\ req[r].sent[1].kind = "errors"
              \/ Status(r) = 404
              \/ Status(r) = 500 /\ req[r].sent[1].kind = "error"

DeletesOf(id) == { r \in Reqs : req[r].method = "DELETE" /\ req[r].id = id }

Answered(id, status) ==
    { r \in DeletesOf(id) : Done(r) /\ Status(r) = status }

\* C9: under every interleaving of the requests at their await points, a
\* response is determined by the request's own method, id and body and by
\* the result of its own single collaborator call; and of the DELETE
\* requests for one id that the store held, whose calls all resolved, exactly
\* one is answered 204 and all the others 404.
C9_Independent ==
    /\ \A r, q \in Reqs :
          ( /\ Done(r) /\ Done(q)
            /\ req[r].method = req[q].method
            /\ req[r].id = req[q].id
            /\ req[r].body = req[q].body
            /\ req[r].ret = req[q].ret )
          => req[r].sent = req[q].sent
    /\ \A id \in Ids :
          /\ Cardinality(Answered(id, 204)) <= 1
          /\ ( /\ id < nextId
               /\ ~Has(store, id)
               /\ \A r \in DeletesOf(id) : Done(r) /\ req[r].ret.st = "ok" )
             => /\ Cardinality(Answered(id, 204)) = 1
                /\ Answered(id, 404) = DeletesOf(id) \ Answered(id, 204)

\* two DELETE requests for one id were in flight together: the one answered
\* 404 had arrived before the other was answered 204
C9_Witness ==
    \E r, q \in Reqs :
        /\ r # q
        /\ req[r].method = "DELETE" /\ req[q].method = "DELETE"
        /\ req[r].id = req[q].id
        /\ Done(r) /\ Status(r) = 204
        /\ Done(q) /\ Status(q) = 404 /\ ~req[q].late

ReadOps == {"getAllProducts", "getProductById"}

OneResponse(r) ==
    /\ Len(req[r].sent) <= 1
    /\ Len(req[r].calls) <= 1
    /\ Done(r) => Len(req[r].sent) = 1
    /\ req[r].method \in {"LIST", "GET"}
          => \A i \in 1..Len(req[r].calls) : req[r].calls[i].op \in ReadOps

\* C10: a request never gets a second response and never makes a second
\* collaborator call, a GET calls only getAllProducts / getProductById, and
\* a request whose collaborator call has settled is eventually answered,
\* exactly once.
C10_ExactlyOneResponse ==
    /\ [](\A r \in Reqs : OneResponse(r))
    /\ \A r \in Reqs :
          (req[r].phase = "settled") ~> (Done(r) /\ Len(req[r].sent) = 1)

C10_Witness ==
    \E r, q \in Reqs :
        /\ Done(r) /\ req[r].method = "GET" /\ Status(r) = 404
        /\ Len(req[r].sent) = 1
        /\ Done(q) /\ req[q].method = "POST" /\ Status(q) = 400
        /\ Len(req[q].sent) = 1

----------------------------------------------------------------------------
(* validateProduct against the rules of the data model                     *)

Fields == {"name", "price", "category"}

\* name and category: a non-empty string; price: a positive number
RuleHolds(f, v) ==
    IF f = "price" THEN v.t = "number" /\ v.n > 0
    ELSE v.t = "string" /\ Trim(v.s) # <<>>

Itemized(body) ==
    Push(IF RuleHolds("name", body.name) THEN "ok" ELSE "error", MsgName)
      \o Push(IF RuleHolds("price", body.price) THEN "ok" ELSE "error",
              MsgPrice)
      \o Push(IF RuleHolds("category", body.category) THEN "ok" ELSE "error",
              MsgCategory)

\* C2: for a body from which at least one of name, price, category is
\* missing, validateProduct answers 400 with exactly one message per
\* violated rule, none for a satisfied rule, in the order name, price,
\* category.
C2_MissingFieldsItemized ==
    (vout # NotRun /\ \E f \in Fields : vbody[f] = Undef)
    => /\ vout.out = "400"
       /\ vout.errors = Itemized(vbody)

\* C3: validateProduct calls next exactly for the bodies whose name and
\* category are non-empty strings and whose price is a positive number, and
\* answers 400 for every other body.
C3_NextIffValid ==
    vout # NotRun
    => IF \A f \in Fields : RuleHolds(f, vbody[f])
       THEN vout.out = "next"
       ELSE vout.out = "400"

====
